---- MODULE Spec2Model ----
(***************************************************************************)
(* Model of the Manatan reverse proxy: build_state (src/src/lib.rs), the   *)
(* shared AppState and its EmbeddedServer destructor, the router, the      *)
(* dispatcher proxy_handler, the HTTP bridge proxy_request and the         *)
(* WebSocket bridge handle_socket (src/src/app.rs).                        *)
(*                                                                         *)
(* Strings are sequences of one-character strings; the NUL byte is the     *)
(* token "NUL".  Option<T> is a sequence of length 0 (None) or 1 (Some).   *)
(***************************************************************************)
EXTENDS Integers, Sequences, FiniteSets, TLC

VARIABLES
    cfg,        \* the Config handed to build_state
    env,        \* MANATAN_BACKEND_HOST / MANATAN_BACKEND_PORT
    bpc,        \* build_state: "init", "config_err", "start_err", "ok"
    berr,       \* label of the field named by the configuration error
    startArgs,  \* what each manatan_server_start call read through its pointers
    handle,     \* pointer returned by manatan_server_start (NullPtr or a handle)
    backend_url,\* AppState.backend_url (None until new_state)
    srv,        \* EmbeddedServer.handle (None until new_state)
    strong,     \* strong count of the Arc<EmbeddedServer>
    holder,     \* per holder of an AppState clone: its position
    router,     \* "none", "plain" (build_router_without_cors) or "cors" (build_router)
    stopCalls,  \* the handles manatan_server_stop was invoked on, in order
    backend,    \* the backend process: "off", "up", "hung" or "dead"
    req,        \* per request slot: the request task (proxy_handler, proxy_request)
    ws,         \* per request slot: the session task (handle_socket)
    probe       \* the request a route probe sends (None when none is set up)

buildVars == <<cfg, env, bpc, berr, startArgs, handle>>

stateVars == <<backend_url, srv, strong, holder, router, stopCalls>>

vars == <<cfg, env, bpc, berr, startArgs, handle, backend_url, srv, strong, holder,
          router, stopCalls, backend, req, ws, probe>>

----------------------------------------------------------------------------
(* Bounds *)

\* Request slots served over the life of one router.
MaxReqs == 2

\* Clones of the AppState the embedding application makes for itself.
MaxClones == 1

\* Messages read from each side of one session.
MaxMsgs == 2

\* Segments of a probed request path.
MaxSegs == 3

Reqs == 1..MaxReqs

----------------------------------------------------------------------------
(* Strings *)

NUL == "NUL"

None == <<>>

Some(x) == <<x>>

U16Max == 65535

NullPtr == 0

Digits == <<"0", "1", "2", "3", "4", "5", "6", "7", "8", "9">>

IsDigit(c) == \E i \in 1..10 : Digits[i] = c

DigitVal(c) == (CHOOSE i \in 1..10 : Digits[i] = c) - 1

RECURSIVE DecValue(_)
DecValue(s) ==
    IF s = <<>> THEN 0
    ELSE 10 * DecValue(SubSeq(s, 1, Len(s) - 1)) + DigitVal(s[Len(s)])

\* str::parse::<u16>: an optional '+', then one or more decimal digits whose
\* value fits 16 bits; anything else is an error (None).
parse_u16(s) ==
    LET d == IF s # <<>> /\ s[1] = "+" THEN Tail(s) ELSE s
    IN  IF d # <<>> /\ (\A i \in 1..Len(d) : IsDigit(d[i])) /\ DecValue(d) <= U16Max
        THEN Some(DecValue(d))
        ELSE None

\* Display of an unsigned integer: its decimal digits, no sign, no padding.
RECURSIVE Decimal(_)
Decimal(n) ==
    IF n < 10 THEN <<Digits[n + 1]>>
    ELSE Decimal(n \div 10) \o <<Digits[(n % 10) + 1]>>

HasNul(s) == \E i \in 1..Len(s) : s[i] = NUL

\* What C code reads through a char pointer: the bytes before the first NUL.
RECURSIVE CStrView(_)
CStrView(bytes) ==
    IF bytes = <<>> \/ bytes[1] = NUL THEN <<>>
    ELSE <<bytes[1]>> \o CStrView(Tail(bytes))

----------------------------------------------------------------------------
(* build_state, src/src/lib.rs *)

DefaultHost == <<"1", "2", "7", ".", "0", ".", "0", ".", "1">>

HttpScheme == <<"h", "t", "t", "p", ":", "/", "/">>

\* A mutation of to_cstring: the value is cut at its first NUL instead of
\* being refused.
to_cstring_truncating(value) ==
    [ok |-> TRUE, bytes |-> CStrView(value)]

\* CString::new(value).map_err(..): an error when the value holds a NUL byte.
to_cstring(value) ==
    IF HasNul(value) THEN [ok |-> FALSE, bytes |-> <<>>]
    ELSE [ok |-> TRUE, bytes |-> value]

\* A mutation of the default port's arithmetic: the sum wraps at 16 bits.
saturating_add_wrapping(p, k) == (p + k) % (U16Max + 1)

\* u16::saturating_add: the sum, held at u16::MAX.
saturating_add(p, k) == IF p + k > U16Max THEN U16Max ELSE p + k

backend_host(e) == IF e.host = None THEN DefaultHost ELSE e.host[1]

backend_port(c, e) ==
    LET parsed == IF e.port = None THEN None ELSE parse_u16(e.port[1])
    IN  IF parsed = None THEN saturating_add(c.port, 1) ELSE parsed[1]

format_backend_url(host, port) == HttpScheme \o host \o <<":">> \o Decimal(port)

\* The labels of the strings build_state converts, in the order it converts them.
StringFields ==
    <<"backend_host", "java_runtime_url", "aidoku_index_url", "aidoku_cache_path",
      "db_path", "downloads_path", "local_manga_path", "local_anime_path",
      "migrate_path">>

\* migrate_path is converted only when it is Some and not empty.
MigrateConfigured(c) == c.migrate_path # None /\ c.migrate_path[1] # <<>>

\* The value build_state converts for a label (None: nothing is converted).
FieldValue(c, e, label) ==
    IF label = "backend_host" THEN Some(backend_host(e))
    ELSE IF label = "migrate_path"
         THEN (IF MigrateConfigured(c) THEN c.migrate_path ELSE None)
         ELSE Some(c[label])

Converted(c, e, label) ==
    IF FieldValue(c, e, label) = None THEN [ok |-> TRUE, bytes |-> <<>>]
    ELSE to_cstring(FieldValue(c, e, label)[1])

\* Index of the first label whose conversion fails, 0 when none does: each
\* to_cstring(..)? returns from build_state at the first error.
FirstError(c, e) ==
    IF \E i \in 1..Len(StringFields) : ~Converted(c, e, StringFields[i]).ok
    THEN CHOOSE i \in 1..Len(StringFields) :
            /\ ~Converted(c, e, StringFields[i]).ok
            /\ \A j \in 1..(i - 1) : Converted(c, e, StringFields[j]).ok
    ELSE 0

\* A mutation of the configuration record: the backend is given the proxy's
\* own listen port, while the base URL is formatted from the backend port.
ffi_config_listen_port(c, e) ==
    [host              |-> CStrView(Converted(c, e, "backend_host").bytes),
     port              |-> c.port,
     java_runtime_url  |-> CStrView(Converted(c, e, "java_runtime_url").bytes),
     aidoku_index_url  |-> CStrView(Converted(c, e, "aidoku_index_url").bytes),
     aidoku_cache_path |-> CStrView(Converted(c, e, "aidoku_cache_path").bytes),
     db_path           |-> CStrView(Converted(c, e, "db_path").bytes),
     migrate_path      |-> IF MigrateConfigured(c)
                           THEN Some(CStrView(Converted(c, e, "migrate_path").bytes))
                           ELSE None,
     downloads_path    |-> CStrView(Converted(c, e, "downloads_path").bytes),
     local_manga_path  |-> CStrView(Converted(c, e, "local_manga_path").bytes),
     local_anime_path  |-> CStrView(Converted(c, e, "local_anime_path").bytes)]

\* ManatanServerConfig as the backend reads it: every pointer dereferenced as a
\* C string; migrate_path is a null pointer (None) when not configured.
ffi_config(c, e) ==
    [host              |-> CStrView(Converted(c, e, "backend_host").bytes),
     port              |-> backend_port(c, e),
     java_runtime_url  |-> CStrView(Converted(c, e, "java_runtime_url").bytes),
     aidoku_index_url  |-> CStrView(Converted(c, e, "aidoku_index_url").bytes),
     aidoku_cache_path |-> CStrView(Converted(c, e, "aidoku_cache_path").bytes),
     db_path           |-> CStrView(Converted(c, e, "db_path").bytes),
     migrate_path      |-> IF MigrateConfigured(c)
                           THEN Some(CStrView(Converted(c, e, "migrate_path").bytes))
                           ELSE None,
     downloads_path    |-> CStrView(Converted(c, e, "downloads_path").bytes),
     local_manga_path  |-> CStrView(Converted(c, e, "local_manga_path").bytes),
     local_anime_path  |-> CStrView(Converted(c, e, "local_anime_path").bytes)]

\* build_state's test of the pointer manatan_server_start returned, mutated:
\* the null check is left out.
start_succeeded_unchecked(h) == TRUE

\* lib.rs:68, !handle.is_null()
start_succeeded(h) == h # NullPtr

\* The handle manatan_server_start returns when it succeeds.
LiveHandle == 1

StartResults == {NullPtr, LiveHandle}

Owner == <<"owner", 0>>

\* build_state, whole: the conversions in order, each returning at its first
\* error; then the start call, whose result the backend decides; then
\* new_state, which wraps the handle in Arc::new(EmbeddedServer { handle }).
BuildState ==
    /\ bpc = "init"
    /\ IF FirstError(cfg, env) # 0
       THEN /\ bpc' = "config_err"
            /\ berr' = StringFields[FirstError(cfg, env)]
            /\ UNCHANGED <<startArgs, handle, backend_url, srv, strong, holder, backend>>
       ELSE \E h \in StartResults :
            /\ startArgs' = Append(startArgs, ffi_config(cfg, env))
            /\ handle' = Some(h)
            /\ backend' = IF h # NullPtr THEN "up" ELSE backend
            /\ berr' = berr
            /\ IF start_succeeded(h)
               THEN /\ bpc' = "ok"
                    /\ backend_url' =
                         Some(format_backend_url(backend_host(env), backend_port(cfg, env)))
                    /\ srv' = Some(h)
                    /\ strong' = 1
                    /\ holder' = [holder EXCEPT ![Owner] = "held"]
               ELSE /\ bpc' = "start_err"
                    /\ UNCHANGED <<backend_url, srv, strong, holder>>
    /\ UNCHANGED <<cfg, env, router, stopCalls, req, ws, probe>>

----------------------------------------------------------------------------
(* AppState, EmbeddedServer and the Arc that shares it, src/src/app.rs *)

\* A mutation of the Arc's release: every release runs the destructor, as if
\* each AppState clone owned its own copy of the raw handle.
was_last_always(count) == TRUE

\* Arc<EmbeddedServer>: the release that takes the strong count from 1 to 0
\* runs EmbeddedServer::drop, and no other release does.
was_last(count) == count = 1

\* CloneState(h): #[derive(Clone)] on AppState; the Arc's strong count grows.
CloneState(h) ==
    /\ holder[h] = "none"
    /\ \E g \in DOMAIN holder : holder[g] = "held"
    /\ holder' = [holder EXCEPT ![h] = "held"]
    /\ strong' = strong + 1
    /\ UNCHANGED <<buildVars, backend_url, srv, router, stopCalls, backend, req, ws, probe>>

\* A mutation of proxy_handler: the handler gives up its clone of the state
\* before its forward has resolved.
may_release_early(h) == TRUE

\* A request handler's clone is dropped when proxy_handler returns; the
\* embedding application drops the router and its own clones when it likes.
MayRelease(h) ==
    IF h[1] = "req" THEN req[h[2]].pc = "returned" ELSE TRUE

\* An AppState clone is dropped: the Arc's fetch_sub.
ArcRelease(h) ==
    /\ holder[h] = "held"
    /\ MayRelease(h)
    /\ strong' = strong - 1
    /\ holder' = [holder EXCEPT ![h] = IF was_last(strong) THEN "dropping" ELSE "gone"]
    /\ UNCHANGED <<buildVars, backend_url, srv, router, stopCalls, backend, req, ws, probe>>

\* EmbeddedServer::drop, its test: if !self.handle.is_null()
DropEnter(h) ==
    /\ holder[h] = "dropping"
    /\ holder' = [holder EXCEPT ![h] = IF srv[1] # NullPtr THEN "stopping" ELSE "gone"]
    /\ UNCHANGED <<buildVars, backend_url, srv, strong, router, stopCalls, backend, req, ws, probe>>

\* A mutation of the destructor: stopping the backend also cancels the
\* sessions that are under way, closing their sockets.
DropStop_cancelling(h) ==
    /\ holder[h] = "stopping"
    /\ stopCalls' = Append(stopCalls, srv[1])
    /\ srv' = Some(NullPtr)
    /\ backend' = "dead"
    /\ holder' = [holder EXCEPT ![h] = "gone"]
    /\ ws' = [r \in DOMAIN ws |->
                IF ws[r].pc \in {"none", "closed"} THEN ws[r]
                ELSE [ws[r] EXCEPT !.pc = "closed", !.client = "closed",
                         !.bsock = IF @ = "open" THEN "closed" ELSE @,
                         !.pending = None]]
    /\ UNCHANGED <<buildVars, backend_url, strong, router, req, probe>>

\* EmbeddedServer::drop, its body: manatan_server_stop(self.handle), which
\* ends the backend, then self.handle = null.
DropStop(h) ==
    /\ holder[h] = "stopping"
    /\ stopCalls' = Append(stopCalls, srv[1])
    /\ srv' = Some(NullPtr)
    /\ backend' = "dead"
    /\ holder' = [holder EXCEPT ![h] = "gone"]
    /\ UNCHANGED <<buildVars, backend_url, strong, router, req, ws, probe>>

\* build_router (with the CORS layer) or build_router_without_cors: the
\* AppState build_state returned moves into the router.
BuildRouter(kind) ==
    /\ router = "none"
    /\ holder[Owner] = "held"
    /\ router' = kind
    /\ UNCHANGED <<buildVars, backend_url, srv, strong, holder, stopCalls, backend, req, ws, probe>>

----------------------------------------------------------------------------
(* Requests, headers and routes *)

UpperCase ==
    <<"A", "B", "C", "D", "E", "F", "G", "H", "I", "J", "K", "L", "M",
      "N", "O", "P", "Q", "R", "S", "T", "U", "V", "W", "X", "Y", "Z">>

LowerCase ==
    <<"a", "b", "c", "d", "e", "f", "g", "h", "i", "j", "k", "l", "m",
      "n", "o", "p", "q", "r", "s", "t", "u", "v", "w", "x", "y", "z">>

to_ascii_lowercase(c) ==
    IF \E i \in 1..Len(UpperCase) : UpperCase[i] = c
    THEN LowerCase[CHOOSE i \in 1..Len(UpperCase) : UpperCase[i] = c]
    ELSE c

\* A mutation of eq_ignore_ascii_case: the comparison is exact.
eq_exact(a, b) == a = b

\* str::eq_ignore_ascii_case
eq_ignore_ascii_case(a, b) ==
    /\ Len(a) = Len(b)
    /\ \A i \in 1..Len(a) : to_ascii_lowercase(a[i]) = to_ascii_lowercase(b[i])

\* A byte HeaderValue::to_str refuses (not visible ASCII).
NonAscii == "\\xe9"

\* HeaderValue::to_str().ok()
to_str(v) == IF \E i \in 1..Len(v) : v[i] = NonAscii THEN None ELSE Some(v)

\* HeaderMap::get: the first value under the name.
HeaderGet(headers, name) ==
    IF \E i \in 1..Len(headers) : headers[i][1] = name
    THEN Some(headers[CHOOSE i \in 1..Len(headers) :
                        /\ headers[i][1] = name
                        /\ \A j \in 1..(i - 1) : headers[j][1] # name][2])
    ELSE None

\* The entries of a header map whose name is not `name`, in order.
RECURSIVE HeadersWithout(_, _)
HeadersWithout(headers, name) ==
    IF headers = <<>> THEN <<>>
    ELSE (IF headers[1][1] = name THEN <<>> ELSE <<headers[1]>>)
         \o HeadersWithout(Tail(headers), name)

\* HeaderMap::insert: the value replaces every value under the name.
HeaderInsert(headers, name, value) ==
    HeadersWithout(headers, name) \o <<(<<name, value>>)>>

\* HeaderMap::append: the value is added to the values under the name.
HeaderAppend(headers, name, value) == headers \o <<(<<name, value>>)>>

WebsocketToken == <<"w", "e", "b", "s", "o", "c", "k", "e", "t">>

\* The path of a request: its segments ("/a/b" is <<"a", "b">>, "/a/" is
\* <<"a", "">>), written out with a "/" before each.
RECURSIVE PathStr(_)
PathStr(segs) ==
    IF segs = <<>> THEN <<>> ELSE <<"/", segs[1]>> \o PathStr(Tail(segs))

\* Uri::path_and_query().as_str()
PathAndQuery(q) ==
    PathStr(q.path) \o (IF q.query = None THEN <<>> ELSE <<"?">> \o q.query[1])

\* A mutation of the route table: the catch-all of /docs also takes /docs/.
catch_all_matches_empty(rest) == rest # <<>>

\* A {*path} catch-all takes the rest of the path if it is not empty.
catch_all_matches(rest) == rest # <<>> /\ rest # <<"">>

\* build_router_without_cors: the routes of the table, each any(proxy_handler).
MatchesRoute(path) ==
    \/ path = <<"health">>
    \/ Len(path) = 3 /\ path[1] = "extension" /\ path[2] = "icon" /\ path[3] # ""
    \/ path = <<"api", "v1">>
    \/ Len(path) > 2 /\ path[1] = "api" /\ path[2] = "v1"
          /\ catch_all_matches(SubSeq(path, 3, Len(path)))
    \/ path = <<"docs">>
    \/ Len(path) > 1 /\ path[1] = "docs" /\ catch_all_matches(SubSeq(path, 2, Len(path)))
    \/ path = <<"openapi.json">>

----------------------------------------------------------------------------
(* The CORS layer of build_router *)

VaryValue == "origin, access-control-request-method, access-control-request-headers"

\* CorsLayer::new().allow_origin(Any).allow_methods(Any).allow_headers(Any) on
\* an OPTIONS request: the layer answers itself, the inner router is not called.
CorsPreflight ==
    [status  |-> 200,
     headers |-> <<(<<"vary", VaryValue>>),
                   (<<"access-control-allow-methods", "*">>),
                   (<<"access-control-allow-headers", "*">>),
                   (<<"access-control-allow-origin", "*">>)>>,
     body    |-> <<>>]

\* The same layer on any other request: the inner response with vary appended
\* and access-control-allow-origin set, replacing the inner response's own.
CorsDecorate(resp) ==
    [resp EXCEPT !.headers =
        HeaderInsert(HeaderAppend(resp.headers, "vary", VaryValue),
                     "access-control-allow-origin", "*")]

\* build_router wraps the table in the layer; build_router_without_cors does not.
Layered(kind, resp) == IF kind = "cors" THEN CorsDecorate(resp) ELSE resp

----------------------------------------------------------------------------
(* proxy_request: the HTTP bridge *)

BadGateway == 502

StartsWith(str, prefix) ==
    Len(prefix) <= Len(str) /\ SubSeq(str, 1, Len(prefix)) = prefix

\* The target path: the path and query, less strip_prefix when it is not
\* empty and the path starts with it.
TargetPath(path_query, strip_prefix) ==
    IF strip_prefix # <<>> /\ StartsWith(path_query, strip_prefix)
    THEN SubSeq(path_query, Len(strip_prefix) + 1, Len(path_query))
    ELSE path_query

\* A mutation of the header filter: host is forwarded as well.
ForwardedHeaders_with_host(headers) == headers

\* for (key, value) in headers.iter() { if key.as_str() != "host" { .. } }
ForwardedHeaders(headers) == HeadersWithout(headers, "host")

\* A body stream relayed chunk by chunk, each chunk as it arrives.
RECURSIVE StreamBody(_)
StreamBody(chunks) ==
    IF chunks = <<>> THEN <<>> ELSE <<chunks[1]>> \o StreamBody(Tail(chunks))

\* The request proxy_request sends: client.request(method, target_url).body(..)
\* and every header but host.
BackendRequest(q, base_url, strip_prefix) ==
    [method  |-> q.method,
     url     |-> base_url \o TargetPath(PathAndQuery(q), strip_prefix),
     headers |-> ForwardedHeaders(q.headers),
     body    |-> StreamBody(q.body)]

\* Ok(resp): the status, each header and the body stream of the backend's response.
RelayedResponse(resp) ==
    [status |-> resp.status, headers |-> resp.headers, body |-> StreamBody(resp.body)]

\* Err(_): 502 with an empty body.
BadGatewayResponse == [status |-> BadGateway, headers |-> <<>>, body |-> <<>>]

----------------------------------------------------------------------------
(* proxy_handler: the dispatcher *)

\* parts.headers.get("upgrade").and_then(to_str).map(eq_ignore_ascii_case("websocket"))
\*      .unwrap_or(false)
is_ws(headers) ==
    /\ HeaderGet(headers, "upgrade") # None
    /\ to_str(HeaderGet(headers, "upgrade")[1]) # None
    /\ eq_ignore_ascii_case(to_str(HeaderGet(headers, "upgrade")[1])[1], WebsocketToken)

HttpsScheme == <<"h", "t", "t", "p", "s", ":", "/", "/">>

WsScheme == <<"w", "s", ":", "/", "/">>

WssScheme == <<"w", "s", "s", ":", "/", "/">>

backend_ws_url(base) ==
    IF StartsWith(base, HttpsScheme)
    THEN WssScheme \o SubSeq(base, Len(HttpsScheme) + 1, Len(base))
    ELSE IF StartsWith(base, HttpScheme)
         THEN WsScheme \o SubSeq(base, Len(HttpScheme) + 1, Len(base))
         ELSE WsScheme \o base

\* v.split(','): the pieces of the value between its commas.
RECURSIVE SplitComma(_, _)
SplitComma(v, piece) ==
    IF v = <<>> THEN <<piece>>
    ELSE IF v[1] = "," THEN <<piece>> \o SplitComma(Tail(v), <<>>)
    ELSE SplitComma(Tail(v), Append(piece, v[1]))

\* s.trim(): the piece without its leading and trailing spaces.
RECURSIVE Trim(_)
Trim(piece) ==
    IF piece = <<>> THEN <<>>
    ELSE IF piece[1] = " " THEN Trim(Tail(piece))
    ELSE IF piece[Len(piece)] = " " THEN Trim(SubSeq(piece, 1, Len(piece) - 1))
    ELSE piece

\* The subprotocols a Sec-WebSocket-Protocol value lists.
ProtocolList(value) ==
    [i \in 1..Len(SplitComma(value, <<>>)) |-> Trim(SplitComma(value, <<>>)[i])]

\* let protocols: Vec<String> = parts.headers.get("sec-websocket-protocol")
\*     .and_then(to_str).map(split(',').map(trim)).unwrap_or_default()
protocols(headers) ==
    IF HeaderGet(headers, "sec-websocket-protocol") = None THEN <<>>
    ELSE IF to_str(HeaderGet(headers, "sec-websocket-protocol")[1]) = None THEN <<>>
    ELSE ProtocolList(HeaderGet(headers, "sec-websocket-protocol")[1])

\* ws.protocols(protocols): the handshake response names the first of the
\* known protocols that the request's header lists.
SelectProtocol(known, headers) ==
    IF \E i \in 1..Len(known) : \E j \in 1..Len(protocols(headers)) :
            protocols(headers)[j] = known[i]
    THEN Some(known[CHOOSE i \in 1..Len(known) :
                 /\ \E j \in 1..Len(protocols(headers)) : protocols(headers)[j] = known[i]
                 /\ \A k \in 1..(i - 1) :
                       \A j \in 1..Len(protocols(headers)) : protocols(headers)[j] # known[k]])
    ELSE None

\* What the backend accepts on a handshake that succeeds: none when the dial
\* offers no subprotocol, one of the offered subprotocols otherwise (any
\* other answer fails the dial).
BackendAccepts(dial_headers) ==
    IF HeaderGet(dial_headers, "sec-websocket-protocol") = None THEN {None}
    ELSE {Some(ProtocolList(HeaderGet(dial_headers, "sec-websocket-protocol")[1])[i]) :
             i \in 1..Len(ProtocolList(HeaderGet(dial_headers, "sec-websocket-protocol")[1]))}

Hreq(r) == <<"req", r>>

ReqIdle ==
    [pc |-> "idle", q |-> None, via |-> "none", sent |-> <<>>, send |-> "none",
     bresp |-> None, resp |-> None]

WsNone ==
    [pc |-> "none", url |-> None, hdrs |-> <<>>, dials |-> <<>>, dial |-> "none",
     client |-> "none",
     bsock |-> "none", cpeer |-> "open", pending |-> None, cause |-> "none",
     cproto |-> None, bproto |-> None,
     fromClient |-> <<>>, toBackend |-> <<>>, fromBackend |-> <<>>, toClient |-> <<>>]

NotFound == [status |-> 404, headers |-> <<>>, body |-> <<>>]

\* What WebSocketUpgrade::from_request_parts decides: 101 (the handshake is
\* accepted) or the status of its rejection.
HandshakeOutcomes == {101, 400}

HandshakeResponse(status) == [status |-> status, headers |-> <<>>, body |-> <<>>]

\* A mutation of the match on the handshake: the session is started whether
\* the handshake was accepted or rejected.
on_upgrade_unconditional(hs, q, base_url) ==
    [WsNone EXCEPT !.pc = "upgrading",
                   !.url = Some(backend_ws_url(base_url) \o PathAndQuery(q)),
                   !.hdrs = q.headers, !.client = IF hs = 101 THEN "open" ELSE "closed",
                   !.cproto = SelectProtocol(protocols(q.headers), q.headers)]

\* match WebSocketUpgrade::from_request_parts(..) { Ok(ws) => ws.protocols(..)
\* .on_upgrade(handle_socket(socket, headers, backend_url)), Err(err) => err }:
\* the session an accepted handshake leaves waiting for its upgrade; none for
\* a rejected one.
on_upgrade(hs, q, base_url) ==
    IF hs = 101
    THEN [WsNone EXCEPT !.pc = "upgrading",
                        !.url = Some(backend_ws_url(base_url) \o PathAndQuery(q)),
                        !.hdrs = q.headers, !.client = "open",
                        !.cproto = SelectProtocol(protocols(q.headers), q.headers)]
    ELSE WsNone

\* The router serves one request up to the handler's first suspension: the
\* CORS layer (build_router only), the route table, then proxy_handler, which
\* holds its own clone of the AppState (State(state)) until it returns.
Dispatch(r, q) ==
    /\ router # "none"
    /\ holder[Owner] = "held"
    /\ req[r].pc = "idle"
    /\ IF router = "cors" /\ q.method = "OPTIONS"
       THEN /\ req' = [req EXCEPT ![r] = [ReqIdle EXCEPT !.pc = "done", !.q = Some(q),
                          !.via = "cors", !.resp = Some(CorsPreflight)]]
            /\ UNCHANGED <<strong, holder, ws>>
       ELSE IF ~MatchesRoute(q.path)
       THEN /\ req' = [req EXCEPT ![r] = [ReqIdle EXCEPT !.pc = "done", !.q = Some(q),
                          !.via = "nomatch", !.resp = Some(Layered(router, NotFound))]]
            /\ UNCHANGED <<strong, holder, ws>>
       ELSE /\ strong' = strong + 1
            /\ holder' = [holder EXCEPT ![Hreq(r)] = "held"]
            /\ IF is_ws(q.headers)
               THEN \E hs \in HandshakeOutcomes :
                    /\ req' = [req EXCEPT ![r] = [ReqIdle EXCEPT !.pc = "returned",
                                  !.q = Some(q),
                                  !.via = IF hs = 101 THEN "ws" ELSE "ws_rejected",
                                  !.resp = Some(Layered(router, HandshakeResponse(hs)))]]
                    /\ ws' = [ws EXCEPT ![r] = on_upgrade(hs, q, backend_url[1])]
               ELSE /\ req' = [req EXCEPT ![r] = [ReqIdle EXCEPT !.pc = "sending",
                                  !.q = Some(q), !.via = "http",
                                  !.sent = <<BackendRequest(q, backend_url[1], <<>>)>>]]
                    /\ ws' = ws
    /\ UNCHANGED <<buildVars, backend_url, srv, router, stopCalls, backend, probe>>

\* A mutation of the send: a failed send is tried again until the backend
\* answers, so it resolves only for a live backend.
SendOutcomes_retrying(responses) ==
    IF backend = "up" THEN {Some(b) : b \in responses} ELSE {}

\* What builder.send().await can resolve to: Ok(resp) for a response of a
\* live backend, None for Err (refused, reset, timed out).
SendOutcomes(responses) ==
    IF backend = "up" THEN {Some(b) : b \in responses} \cup {None} ELSE {None}

\* A mutation of the Err arm: the failure is answered with the backend's
\* reason instead of an empty 502.
OnSendResult_leaky(out) ==
    IF out = None THEN [status |-> 500, headers |-> <<>>, body |-> <<"e">>]
    ELSE RelayedResponse(out[1])

\* match builder.send().await { Ok(resp) => .., Err(_err) => 502 }
OnSendResult(out) ==
    IF out = None THEN BadGatewayResponse ELSE RelayedResponse(out[1])

\* A mutation of the Err arm: a failed send marks the backend as down, and
\* every forward waiting on it is answered 502 with it.
SendResolve_failing_all(r, responses) ==
    /\ req[r].pc = "sending"
    /\ backend # "hung"
    /\ \E out \in SendOutcomes(responses) :
          req' = [s \in Reqs |->
                    IF s = r \/ (out = None /\ req[s].pc = "sending")
                    THEN [req[s] EXCEPT !.pc = "returned",
                                        !.send = IF out = None THEN "err" ELSE "ok",
                                        !.bresp = out,
                                        !.resp = Some(Layered(router, OnSendResult(out)))]
                    ELSE req[s]]
    /\ UNCHANGED <<buildVars, stateVars, backend, ws, probe>>

\* proxy_request resumes when the send resolves, and proxy_handler returns its
\* response through the router's layer. A hung backend resolves nothing.
SendResolve(r, responses) ==
    /\ req[r].pc = "sending"
    /\ backend # "hung"
    /\ \E out \in SendOutcomes(responses) :
          req' = [req EXCEPT ![r].pc = "returned",
                             ![r].send = IF out = None THEN "err" ELSE "ok",
                             ![r].bresp = out,
                             ![r].resp = Some(Layered(router, OnSendResult(out)))]
    /\ UNCHANGED <<buildVars, stateVars, backend, ws, probe>>

----------------------------------------------------------------------------
(* handle_socket: the WebSocket bridge *)

\* The close codes tungstenite's CloseCode names, with the number of each.
NamedCloseCodes ==
    <<(<<"Normal", 1000>>), (<<"Away", 1001>>), (<<"Protocol", 1002>>),
      (<<"Unsupported", 1003>>), (<<"Status", 1005>>), (<<"Abnormal", 1006>>),
      (<<"Invalid", 1007>>), (<<"Policy", 1008>>), (<<"Size", 1009>>),
      (<<"Extension", 1010>>), (<<"Error", 1011>>), (<<"Restart", 1012>>),
      (<<"Again", 1013>>), (<<"Tls", 1015>>)>>

\* CloseCode::from(u16): the named variant of the code, or the variant of its
\* range carrying the code.
CloseCodeFromU16(code) ==
    IF \E i \in 1..Len(NamedCloseCodes) : NamedCloseCodes[i][2] = code
    THEN <<(CHOOSE i \in 1..Len(NamedCloseCodes) : NamedCloseCodes[i][2] = code)>>
    ELSE IF code \in 1016..2999 THEN <<"Reserved", code>>
    ELSE IF code \in 3000..3999 THEN <<"Iana", code>>
    ELSE IF code \in 4000..4999 THEN <<"Library", code>>
    ELSE <<"Bad", code>>

\* u16::from(CloseCode): the number of a named variant, the carried code otherwise.
U16FromCloseCode(cc) ==
    IF Len(cc) = 1 THEN NamedCloseCodes[cc[1]][2] ELSE cc[2]

\* A mutation of the match: a close from the client is given no translation.
axum_to_tungstenite_without_close(m) ==
    IF m.kind = "Close" THEN None ELSE Some([kind |-> m.kind, data |-> m.data])

\* axum_to_tungstenite: Some(message) for every axum message.
axum_to_tungstenite(m) ==
    IF m.kind = "Close"
    THEN Some([kind  |-> "Close",
               frame |-> IF m.frame = None THEN None
                         ELSE Some([code   |-> CloseCodeFromU16(m.frame[1].code),
                                    reason |-> m.frame[1].reason])])
    ELSE Some([kind |-> m.kind, data |-> m.data])

\* A mutation of the close arm: the backend's close is passed on as a plain
\* normal closure.
tungstenite_to_axum_normal_close(m) ==
    IF m.kind = "Close"
    THEN [kind  |-> "Close",
          frame |-> IF m.frame = None THEN None
                    ELSE Some([code |-> 1000, reason |-> <<>>])]
    ELSE IF m.kind = "Frame" THEN [kind |-> "Binary", data |-> <<>>]
    ELSE [kind |-> m.kind, data |-> m.data]

\* tungstenite_to_axum: a raw Frame becomes an empty Binary.
tungstenite_to_axum(m) ==
    IF m.kind = "Close"
    THEN [kind  |-> "Close",
          frame |-> IF m.frame = None THEN None
                    ELSE Some([code   |-> U16FromCloseCode(m.frame[1].code),
                               reason |-> m.frame[1].reason])]
    ELSE IF m.kind = "Frame" THEN [kind |-> "Binary", data |-> <<>>]
    ELSE [kind |-> m.kind, data |-> m.data]

AllowList == <<"cookie", "authorization", "user-agent", "sec-websocket-protocol", "origin">>

\* A mutation of the copy: every inbound header is carried to the backend.
CopyAllowed_every(names, inbound, out) == out \o inbound

\* for &name in &[..] { if let Some(value) = headers.get(name) { insert } }
RECURSIVE CopyAllowed(_, _, _)
CopyAllowed(names, inbound, out) ==
    IF names = <<>> THEN out
    ELSE CopyAllowed(Tail(names), inbound,
                     IF HeaderGet(inbound, names[1]) = None THEN out
                     ELSE HeaderInsert(out, names[1], HeaderGet(inbound, names[1])[1]))

\* into_client_request: the URL must parse as a URI (no space in it).
UrlParses(url) == \A i \in 1..Len(url) : url[i] # " "

\* A mutation of the break: only the client-facing half is dropped and the
\* loop goes on relaying what the backend sends.
Closed_client_half(w) == [w EXCEPT !.client = "closed", !.pending = None, !.pc = "select"]

\* The session once it has ended: handle_socket returned, both sockets dropped.
Closed(w) ==
    [w EXCEPT !.pc = "closed", !.client = "closed",
              !.bsock = IF w.bsock = "open" THEN "closed" ELSE w.bsock,
              !.pending = None]

\* A mutation of handle_socket: a failed dial is logged and the relay entered.
after_dial_ignoring_error(w, ok) == [w EXCEPT !.pc = "select", !.bsock = "open"]

\* match connect_async(request).await { Ok(conn) => conn, Err(e) => return }
after_dial(w, ok) ==
    IF ok THEN [w EXCEPT !.pc = "select", !.bsock = "open"] ELSE Closed(w)

\* The upgrade completes and handle_socket starts: the URL is parsed (an
\* error returns), the allow-listed headers are copied, the dial begins.
Upgraded(r) ==
    /\ ws[r].pc = "upgrading"
    /\ ws' = [ws EXCEPT ![r] =
                IF UrlParses(ws[r].url[1])
                THEN [ws[r] EXCEPT !.pc = "connecting", !.dial = "pending",
                         !.dials = Append(ws[r].dials,
                                     [url     |-> ws[r].url[1],
                                      headers |-> CopyAllowed(AllowList, ws[r].hdrs, <<>>)])]
                ELSE Closed([ws[r] EXCEPT !.dial = "parse_err"])]
    /\ UNCHANGED <<buildVars, stateVars, backend, req, probe>>

\* connect_async resolves: a live backend accepts or refuses the handshake, a
\* dead one refuses the connection, a hung one resolves nothing.
ConnectResolve(r) ==
    /\ ws[r].pc = "connecting"
    /\ backend # "hung"
    /\ \E ok \in (IF backend = "up" THEN BOOLEAN ELSE {FALSE}) :
          \E accepted \in (IF ok THEN BackendAccepts(ws[r].dials[Len(ws[r].dials)].headers)
                           ELSE {None}) :
              ws' = [ws EXCEPT ![r] =
                        after_dial([ws[r] EXCEPT !.dial = IF ok THEN "ok" ELSE "err",
                                                 !.bproto = accepted], ok)]
    /\ UNCHANGED <<buildVars, stateVars, backend, req, probe>>

\* select!: client_receiver.next() yields Some(Ok(msg)); the message is
\* translated and its send to the backend begins.
ClientRead(r, m) ==
    /\ ws[r].pc = "select"
    /\ ws[r].cpeer # "gone"
    /\ Len(ws[r].fromClient) < MaxMsgs
    /\ ws' = [ws EXCEPT ![r].fromClient = Append(@, m),
                        ![r].pending = axum_to_tungstenite(m),
                        ![r].pc = IF axum_to_tungstenite(m) = None
                                  THEN "select" ELSE "send_backend"]
    /\ UNCHANGED <<buildVars, stateVars, backend, req, probe>>

\* backend_sender.send(t_msg).await resolves: written, or an error breaks.
SendBackendResolve(r) ==
    /\ ws[r].pc = "send_backend"
    /\ backend # "hung"
    /\ ws' = [ws EXCEPT ![r] =
                IF backend = "up"
                THEN [ws[r] EXCEPT !.toBackend = Append(@, ws[r].pending[1]),
                                   !.pending = None, !.pc = "select"]
                ELSE Closed([ws[r] EXCEPT !.cause = "backend_write"])]
    /\ UNCHANGED <<buildVars, stateVars, backend, req, probe>>

\* select!: backend_receiver.next() yields Some(Ok(msg)); the message is
\* translated and its send to the client begins.
BackendRead(r, m) ==
    /\ ws[r].pc = "select"
    /\ backend = "up"
    /\ Len(ws[r].fromBackend) < MaxMsgs
    /\ ws' = [ws EXCEPT ![r].fromBackend = Append(@, m),
                        ![r].pending = Some(tungstenite_to_axum(m)),
                        ![r].pc = "send_client"]
    /\ UNCHANGED <<buildVars, stateVars, backend, req, probe>>

\* A mutation of the write to the client: the message is queued ahead of the
\* ones already written.
SendClientResolve_newest_first(r) ==
    /\ ws[r].pc = "send_client"
    /\ ws[r].cpeer # "stalled"
    /\ ws' = [ws EXCEPT ![r] =
                IF ws[r].cpeer = "open"
                THEN [ws[r] EXCEPT !.toClient = <<ws[r].pending[1]>> \o @,
                                   !.pending = None, !.pc = "select"]
                ELSE Closed([ws[r] EXCEPT !.cause = "client_write"])]
    /\ UNCHANGED <<buildVars, stateVars, backend, req, probe>>

\* client_sender.send(..).await resolves: written, or an error breaks. A
\* client that has stopped reading resolves nothing.
SendClientResolve(r) ==
    /\ ws[r].pc = "send_client"
    /\ ws[r].cpeer # "stalled"
    /\ ws' = [ws EXCEPT ![r] =
                IF ws[r].cpeer = "open"
                THEN [ws[r] EXCEPT !.toClient = Append(@, ws[r].pending[1]),
                                   !.pending = None, !.pc = "select"]
                ELSE Closed([ws[r] EXCEPT !.cause = "client_write"])]
    /\ UNCHANGED <<buildVars, stateVars, backend, req, probe>>

\* select!: client_receiver.next() yields None or an error (the client closed
\* or lost its connection): break.
ClientEnd(r) ==
    /\ ws[r].pc = "select"
    /\ ws' = [ws EXCEPT ![r] = Closed([ws[r] EXCEPT !.cpeer = "gone", !.cause = "client_read"])]
    /\ UNCHANGED <<buildVars, stateVars, backend, req, probe>>

\* A mutation of the backend arm: when the backend's stream ends the session
\* dials the backend again.
BackendEnd_reconnecting(r) ==
    /\ ws[r].pc = "select"
    /\ backend = "dead"
    /\ ws' = [ws EXCEPT ![r].pc = "connecting", ![r].dial = "pending", ![r].bsock = "none",
                        ![r].dials = Append(@, ws[r].dials[Len(ws[r].dials)])]
    /\ UNCHANGED <<buildVars, stateVars, backend, req, probe>>

\* select!: backend_receiver.next() yields None or an error: break.
BackendEnd(r) ==
    /\ ws[r].pc = "select"
    /\ backend = "dead"
    /\ ws' = [ws EXCEPT ![r] = Closed([ws[r] EXCEPT !.cause = "backend_read"])]
    /\ UNCHANGED <<buildVars, stateVars, backend, req, probe>>

----------------------------------------------------------------------------
(* The environment: the client of a session, the backend process *)

\* The client stops reading its socket while it stays connected.
ClientStall(r) ==
    /\ ws[r].pc \in {"select", "send_backend", "send_client"}
    /\ ws[r].cpeer = "open"
    /\ ws' = [ws EXCEPT ![r].cpeer = "stalled"]
    /\ UNCHANGED <<buildVars, stateVars, backend, req, probe>>

\* The client goes away while the loop is inside a send.
ClientGone(r) ==
    /\ ws[r].pc \in {"send_backend", "send_client"}
    /\ ws[r].cpeer \in {"open", "stalled"}
    /\ ws' = [ws EXCEPT ![r].cpeer = "gone"]
    /\ UNCHANGED <<buildVars, stateVars, backend, req, probe>>

BackendStall ==
    /\ backend = "up"
    /\ backend' = "hung"
    /\ UNCHANGED <<buildVars, stateVars, req, ws, probe>>

BackendCrash ==
    /\ backend \in {"up", "hung"}
    /\ backend' = "dead"
    /\ UNCHANGED <<buildVars, stateVars, req, ws, probe>>

----------------------------------------------------------------------------
(* Inputs *)

CleanStr == <<"a">>

NulStr == <<"a", NUL, "b">>

CleanConfig ==
    [port              |-> 4568,
     java_runtime_url  |-> CleanStr,
     aidoku_index_url  |-> CleanStr,
     aidoku_cache_path |-> CleanStr,
     db_path           |-> CleanStr,
     migrate_path      |-> None,
     downloads_path    |-> CleanStr,
     local_manga_path  |-> CleanStr,
     local_anime_path  |-> CleanStr]

NoEnv == [host |-> None, port |-> None]

\* A backend host that is no URI host.
SpaceHostEnv == [host |-> Some(<<"h", " ">>), port |-> None]

Configs == {CleanConfig, [CleanConfig EXCEPT !.db_path = NulStr]}

Envs == {NoEnv}

Clones == {<<"clone", i>> : i \in 1..MaxClones}

Holders == {Owner} \cup Clones \cup {Hreq(r) : r \in Reqs}

HostHeader == <<"host", <<"p">>>>

UpgradeMixed == <<"upgrade", <<"W", "e", "b", "S", "o", "c", "k", "e", "t">>>>

CookieHeader == <<"cookie", <<"c">>>>

Get(path, headers) ==
    [method |-> "GET", path |-> path, query |-> None, headers |-> headers, body |-> <<>>]

SmallRequests ==
    {Get(<<"health">>, <<HostHeader>>),
     Get(<<"api", "v1", "x">>, <<HostHeader, UpgradeMixed, CookieHeader>>)}

SmallResponses ==
    {[status |-> 200, headers |-> <<(<<"content-type", "text/plain">>)>>,
      body |-> <<"o", "k">>]}



----------------------------------------------------------------------------
(* The proxy: one AppState, its router, concurrent requests and sessions *)

InitRest ==
    /\ bpc = "init"
    /\ berr = None
    /\ startArgs = <<>>
    /\ handle = None
    /\ backend_url = None
    /\ srv = None
    /\ strong = 0
    /\ holder = [h \in Holders |-> "none"]
    /\ router = "none"
    /\ stopCalls = <<>>
    /\ backend = "off"
    /\ req = [r \in Reqs |-> ReqIdle]
    /\ ws = [r \in Reqs |-> WsNone]

Init ==
    /\ cfg \in Configs
    /\ env \in Envs
    /\ probe = None
    /\ InitRest

\* Slots are taken in order.
FreeSlot(r) == \A k \in 1..(r - 1) : req[k].pc # "idle"

\* Clones are made in order.
FreeClone(h) == \A k \in 1..(h[2] - 1) : holder[<<"clone", k>>] # "none"

Next ==
    \/ BuildState
    \/ \E kind \in {"plain", "cors"} : BuildRouter(kind)
    \/ \E h \in Clones : FreeClone(h) /\ CloneState(h)
    \/ \E h \in Holders : ArcRelease(h)
    \/ \E h \in Holders : DropEnter(h)
    \/ \E h \in Holders : DropStop(h)
    \/ \E r \in Reqs, q \in SmallRequests : FreeSlot(r) /\ Dispatch(r, q)
    \/ \E r \in Reqs : SendResolve(r, SmallResponses)
    \/ \E r \in Reqs : Upgraded(r)
    \/ \E r \in Reqs : ConnectResolve(r)
    \/ \E r \in Reqs : ClientEnd(r)
    \/ \E r \in Reqs : BackendEnd(r)
    \/ BackendCrash

Spec == Init /\ [][Next]_vars

----------------------------------------------------------------------------
(* One request through the router and the bridges, over all request shapes *)

UpgradeLower == <<"upgrade", WebsocketToken>>

UpgradeUpper == <<"upgrade", <<"W", "E", "B", "S", "O", "C", "K", "E", "T">>>>

UpgradeH2c == <<"upgrade", <<"h", "2", "c">>>>

UpgradeLonger == <<"upgrade", WebsocketToken \o <<"s">>>>

UpgradeNonAscii == <<"upgrade", <<"w", "e", "b", "s", "o", "c", "k", NonAscii, "t">>>>

ExtraHeader == <<"x-tag", <<"1">>>>

ExtraHeaderAgain == <<"x-tag", <<"2">>>>

ReqMethods == {"GET", "POST", "OPTIONS"}

ReqPaths == {<<"health">>, <<"api", "v1", "x">>, <<"x">>}

ReqQueries == {None, Some(<<"k", "=", "v">>)}

ReqHeaderSets ==
    {<<>>,
     <<HostHeader>>,
     <<ExtraHeader, HostHeader, ExtraHeaderAgain>>,
     <<HostHeader, CookieHeader, UpgradeH2c>>,
     <<HostHeader, UpgradeLower>>,
     <<UpgradeMixed, CookieHeader, ExtraHeader>>,
     <<HostHeader, UpgradeUpper>>,
     <<UpgradeLonger>>,
     <<UpgradeNonAscii, HostHeader>>,
     <<UpgradeH2c, UpgradeLower>>}

ReqBodies == {<<>>, <<"b1", "b2">>}

Requests ==
    {[method |-> m, path |-> p, query |-> qs, headers |-> hs, body |-> b] :
        m \in ReqMethods, p \in ReqPaths, qs \in ReqQueries, hs \in ReqHeaderSets,
        b \in ReqBodies}

RespHeaderSets ==
    {<<>>,
     <<(<<"set-cookie", "a">>), (<<"content-type", "text/plain">>), (<<"set-cookie", "b">>)>>,
     <<(<<"access-control-allow-origin", "https://app">>), (<<"vary", "accept">>)>>}

Responses ==
    {[status |-> st, headers |-> hs, body |-> b] :
        st \in {200, 404}, hs \in RespHeaderSets, b \in {<<>>, <<"o", "k">>}}

InitReq ==
    /\ cfg = CleanConfig
    /\ env = NoEnv
    /\ probe = None
    /\ InitRest

NextReq ==
    \/ BuildState
    \/ \E kind \in {"plain", "cors"} : BuildRouter(kind)
    \/ \E q \in Requests : Dispatch(1, q)
    \/ SendResolve(1, Responses)
    \/ Upgraded(1)
    \/ ConnectResolve(1)
    \/ ClientEnd(1)
    \/ BackendEnd(1)
    \/ BackendStall
    \/ BackendCrash

SpecReq == InitReq /\ [][NextReq]_vars

\* The runtime polls a task whose send has resolved: a pending forward whose
\* outcome is ready is resumed.
LiveReq == SpecReq /\ WF_vars(SendResolve(1, Responses))

----------------------------------------------------------------------------
(* build_state over the configurations and environments *)

StrPool == {CleanStr, NulStr}

BuildConfigs ==
    {[port              |-> p,
      java_runtime_url  |-> s1,
      aidoku_index_url  |-> s2,
      aidoku_cache_path |-> s3,
      db_path           |-> s4,
      migrate_path      |-> mp,
      downloads_path    |-> s5,
      local_manga_path  |-> s6,
      local_anime_path  |-> s7] :
        p \in {0, 4568, U16Max},
        s1 \in StrPool, s2 \in StrPool, s3 \in StrPool, s4 \in StrPool,
        s5 \in StrPool, s6 \in StrPool, s7 \in StrPool,
        mp \in {None, Some(<<>>), Some(CleanStr), Some(NulStr)}}

BuildEnvs ==
    {[host |-> h, port |-> p] :
        h \in {None, Some(<<"h">>), Some(<<"h", NUL>>)},
        p \in {None, Some(<<"9", "0", "0", "0">>), Some(<<"7", "0", "0", "0", "0">>),
               Some(<<"x">>), Some(<<"0">>), Some(<<"+", "5">>), Some(<<>>)}}

InitBuild ==
    /\ cfg \in BuildConfigs
    /\ env \in BuildEnvs
    /\ probe = None
    /\ InitRest

NextBuild == BuildState

SpecBuild == InitBuild /\ [][NextBuild]_vars

----------------------------------------------------------------------------
(* The route table over the paths *)

Segments ==
    {"health", "extension", "icon", "api", "v1", "docs", "openapi.json", "x", ""}

ProbeMethods == {"GET", "POST", "OPTIONS", "DELETE"}

\* The probes: every method with every path of 1..MaxSegs segments.
RouteProbes ==
    {[method |-> m, path |-> p, query |-> None, headers |-> <<HostHeader>>, body |-> <<>>] :
        m \in ProbeMethods, p \in UNION {[1..n -> Segments] : n \in 1..MaxSegs}}

InitRoute ==
    /\ cfg = CleanConfig
    /\ env = NoEnv
    /\ probe \in {Some(q) : q \in RouteProbes}
    /\ InitRest

NextRoute ==
    \/ BuildState
    \/ BuildRouter("plain")
    \/ Dispatch(1, probe[1])
    \/ SendResolve(1, SmallResponses)

SpecRoute == InitRoute /\ [][NextRoute]_vars

----------------------------------------------------------------------------
(* One session: the upgrade, the dial and the relay *)

ProtocolHeader == <<"sec-websocket-protocol", <<"v", "1", ",", " ", "v", "2">>>>

ProtocolHeaderAgain == <<"sec-websocket-protocol", <<"v", "3">>>>

OriginHeader == <<"origin", <<"o">>>>

AuthorizationHeader == <<"authorization", <<"t">>>>

UserAgentHeader == <<"user-agent", <<"u">>>>

CookieHeaderAgain == <<"cookie", <<"d">>>>

WsRequests ==
    {Get(<<"api", "v1", "x">>, <<HostHeader, UpgradeMixed, CookieHeader>>),
     [Get(<<"docs">>, <<UpgradeLower, ExtraHeader>>) EXCEPT !.query = Some(<<"k">>)],
     Get(<<"api", "v1", "x">>,
         <<HostHeader, UpgradeLower, ProtocolHeader, ExtraHeader, OriginHeader,
           ProtocolHeaderAgain>>),
     Get(<<"health">>,
         <<UserAgentHeader, UpgradeUpper, CookieHeader, AuthorizationHeader,
           CookieHeaderAgain>>)}

SessionClientMsgs ==
    {[kind |-> "Text", data |-> <<"p">>], [kind |-> "Close", frame |-> None]}

SessionBackendMsgs ==
    {[kind |-> "Text", data |-> <<"q">>], [kind |-> "Frame", data |-> <<"f">>]}

InitWs ==
    /\ cfg = CleanConfig
    /\ env \in {NoEnv, SpaceHostEnv}
    /\ probe = None
    /\ InitRest

NextWs ==
    \/ BuildState
    \/ \E kind \in {"plain", "cors"} : BuildRouter(kind)
    \/ \E q \in WsRequests : Dispatch(1, q)
    \/ Upgraded(1)
    \/ ConnectResolve(1)
    \/ \E m \in SessionClientMsgs : ClientRead(1, m)
    \/ SendBackendResolve(1)
    \/ \E m \in SessionBackendMsgs : BackendRead(1, m)
    \/ SendClientResolve(1)
    \/ ClientEnd(1)
    \/ BackendEnd(1)
    \/ ClientGone(1)
    \/ ClientStall(1)
    \/ BackendStall
    \/ BackendCrash

SpecWs == InitWs /\ [][NextWs]_vars

\* The session while the router and the handler release their AppState and
\* the last release stops the backend.
NextStop ==
    \/ NextWs
    \/ \E h \in {Owner, Hreq(1)} : ArcRelease(h) \/ DropEnter(h) \/ DropStop(h)

\* The runtime resumes the session's task whenever the future it awaits has
\* resolved: the upgrade, the dial, a write, a read at the end of its stream.
LiveWs ==
    /\ InitWs /\ [][NextStop]_vars
    /\ WF_vars(Upgraded(1)) /\ WF_vars(ConnectResolve(1))
    /\ WF_vars(SendBackendResolve(1)) /\ WF_vars(SendClientResolve(1))
    /\ WF_vars(BackendEnd(1))

----------------------------------------------------------------------------
(* The backend address, from the environment to the forwards and the dials *)

UrlConfigs == {[CleanConfig EXCEPT !.port = p] : p \in {0, 4568, U16Max}}

UrlEnvs ==
    {[host |-> h, port |-> p] :
        h \in {None, Some(<<"h">>), Some(<<"1", "0", ".", "0", ".", "0", ".", "2">>)},
        p \in {None, Some(<<"9", "0", "0", "0">>), Some(<<"0">>), Some(<<"x">>)}}

UrlRequests ==
    SmallRequests \cup WsRequests
    \cup {[Get(<<"docs", "a">>, <<HostHeader>>) EXCEPT !.query = Some(<<"k", "=", "1">>)]}

InitUrl ==
    /\ cfg \in UrlConfigs
    /\ env \in UrlEnvs
    /\ probe = None
    /\ InitRest

NextUrl ==
    \/ BuildState
    \/ \E kind \in {"plain", "cors"} : BuildRouter(kind)
    \/ \E r \in Reqs, q \in UrlRequests : FreeSlot(r) /\ Dispatch(r, q)
    \/ \E r \in Reqs : SendResolve(r, SmallResponses)
    \/ \E r \in Reqs : Upgraded(r)
    \/ \E r \in Reqs : ConnectResolve(r)

SpecUrl == InitUrl /\ [][NextUrl]_vars

-----------------------------------------------------------------------------
(* One session relaying one kind of message in each direction *)

DataKinds == {"Text", "Binary", "Ping", "Pong"}

\* The close codes a peer may put on the wire.
WireCloseCodes == {1000, 1001, 1004, 1015, 2000, 3001, 4000, 5000}

Payloads == {<<>>, <<"p", "q">>}

\* The messages the client-facing socket yields.
AxumMessages ==
    {[kind |-> k, data |-> d] : k \in DataKinds, d \in Payloads}
    \cup {[kind |-> "Close", frame |-> None]}
    \cup {[kind |-> "Close", frame |-> Some([code |-> c, reason |-> <<"b", "y", "e">>])] :
            c \in WireCloseCodes}

\* The messages the backend-facing socket yields, a raw frame included.
TungsteniteMessages ==
    {[kind |-> k, data |-> d] : k \in DataKinds \cup {"Frame"}, d \in Payloads}
    \cup {[kind |-> "Close", frame |-> None]}
    \cup {[kind |-> "Close",
           frame |-> Some([code |-> CloseCodeFromU16(c), reason |-> <<"b", "y", "e">>])] :
            c \in WireCloseCodes}

DefaultClientMsg == [kind |-> "Text", data |-> <<"p", "q">>]

DefaultBackendMsg == [kind |-> "Binary", data |-> <<"p", "q">>]

\* The message each side sends in a session.
MsgProbes ==
    {[c |-> m, b |-> DefaultBackendMsg] : m \in AxumMessages}
    \cup {[c |-> DefaultClientMsg, b |-> t] : t \in TungsteniteMessages}

\* The upgrade request that opens the session.
MsgRequest == Get(<<"api", "v1", "x">>, <<HostHeader, UpgradeLower>>)

InitMsg ==
    /\ cfg = CleanConfig
    /\ env = NoEnv
    /\ probe \in {Some(x) : x \in MsgProbes}
    /\ InitRest

NextMsg ==
    \/ BuildState
    \/ BuildRouter("plain")
    \/ Dispatch(1, MsgRequest)
    \/ Upgraded(1)
    \/ ConnectResolve(1)
    \/ ClientRead(1, probe[1].c)
    \/ SendBackendResolve(1)
    \/ BackendRead(1, probe[1].b)
    \/ SendClientResolve(1)
    \/ ClientEnd(1)
    \/ BackendEnd(1)
    \/ BackendCrash

SpecMsg == InitMsg /\ [][NextMsg]_vars

----------------------------------------------------------------------------
(* Properties *)

HandlerVias == {"http", "ws", "ws_rejected"}

Finished(r) == req[r].pc \in {"done", "returned"}

CaseFold(v) == [i \in 1..Len(v) |-> to_ascii_lowercase(v[i])]

\* The request's Upgrade header equals "websocket" ignoring ASCII case.
IsUpgradeRequest(q) ==
    /\ HeaderGet(q.headers, "upgrade") # None
    /\ CaseFold(HeaderGet(q.headers, "upgrade")[1]) = WebsocketToken

\* A non-empty remainder under a wildcard.
Wild(rest) == Len(rest) > 0 /\ ~(Len(rest) = 1 /\ rest[1] = "")

\* The mapped paths: /health, /extension/icon/{name}, /api/v1, /api/v1/*,
\* /docs, /docs/* and /openapi.json.
InTable(path) ==
    \/ Len(path) = 1 /\ path[1] \in {"health", "docs", "openapi.json"}
    \/ Len(path) = 2 /\ path[1] = "api" /\ path[2] = "v1"
    \/ Len(path) = 3 /\ path[1] = "extension" /\ path[2] = "icon" /\ path[3] # ""
    \/ Len(path) >= 3 /\ path[1] = "api" /\ path[2] = "v1"
          /\ Wild([i \in 1..(Len(path) - 2) |-> path[i + 2]])
    \/ Len(path) >= 2 /\ path[1] = "docs" /\ Wild([i \in 1..(Len(path) - 1) |-> path[i + 1]])

AllHolders == Holders

\* C1: manatan_server_stop is invoked at most once, and only on the handle the
\* successful start returned, under every interleaving of the drops of the
\* AppState clones; once every clone has been dropped it has been invoked
\* exactly once.
C1_StopExactlyOnce ==
    /\ Len(stopCalls) <= 1
    /\ \A i \in 1..Len(stopCalls) : handle = Some(stopCalls[i]) /\ stopCalls[i] = LiveHandle
    /\ (bpc = "ok" /\ \A h \in AllHolders : holder[h] \in {"none", "gone"})
          => Len(stopCalls) = 1

\* The router, an application clone and a request handler have all dropped
\* their clones and stop has been invoked.
C1_Witness ==
    /\ stopCalls = <<LiveHandle>>
    /\ holder[Owner] = "gone"
    /\ \E c \in Clones : holder[c] = "gone"
    /\ \E r \in Reqs : holder[Hreq(r)] = "gone"

\* C2: a request is handed to proxy_handler only after the start call has
\* returned a non-null handle, and stop is invoked only when no AppState clone
\* is held and no handler is running, so nothing is dispatched after stop.
C2_StartBeforeRoutingStopAfter ==
    /\ \A r \in Reqs : req[r].via \in HandlerVias =>
          /\ bpc = "ok"
          /\ Len(startArgs) = 1
          /\ handle # None /\ handle[1] # NullPtr
    /\ stopCalls # <<>> =>
          /\ \A h \in AllHolders : holder[h] # "held"
          /\ \A r \in Reqs : req[r].pc # "sending"

\* Stop came after a forward and a session's handler had both returned.
C2_Witness ==
    /\ stopCalls # <<>>
    /\ \E r \in Reqs : req[r].via = "http" /\ req[r].pc = "returned"
    /\ \E r \in Reqs : req[r].via = "ws"

\* C3: when the start call returns a null handle, build_state returns the
\* start error, no AppState and no router exist and stop is never invoked;
\* stop is only ever invoked on the non-null handle start returned.
C3_NullStartMakesNoState ==
    /\ (handle # None /\ handle[1] = NullPtr) =>
          /\ bpc = "start_err"
          /\ backend_url = None /\ srv = None /\ strong = 0
          /\ \A h \in AllHolders : holder[h] = "none"
          /\ router = "none"
          /\ stopCalls = <<>>
    /\ \A i \in 1..Len(stopCalls) : stopCalls[i] # NullPtr /\ handle = Some(stopCalls[i])

C3_Witness == handle = Some(NullPtr) /\ bpc = "start_err" /\ Len(startArgs) = 1

\* The strings handed to build_state: the backend host, the seven strings of
\* the Config and the migrate path when one is configured.
HandedStrings ==
    {backend_host(env), cfg.java_runtime_url, cfg.aidoku_index_url, cfg.aidoku_cache_path,
     cfg.db_path, cfg.downloads_path, cfg.local_manga_path, cfg.local_anime_path}
    \cup (IF cfg.migrate_path # None /\ cfg.migrate_path[1] # <<>>
          THEN {cfg.migrate_path[1]} ELSE {})

\* C4: when a string handed to build_state holds a NUL byte, build_state
\* returns a configuration error and never calls start; and every string a
\* start call reads is the whole string that was handed, never a truncation.
C4_NulIsConfigurationError ==
    /\ (\E v \in HandedStrings : HasNul(v)) =>
          /\ startArgs = <<>>
          /\ bpc # "init" => bpc = "config_err" /\ berr \in {StringFields[i] : i \in 1..9}
    /\ \A i \in 1..Len(startArgs) :
          /\ startArgs[i].host = backend_host(env)
          /\ startArgs[i].java_runtime_url = cfg.java_runtime_url
          /\ startArgs[i].aidoku_index_url = cfg.aidoku_index_url
          /\ startArgs[i].aidoku_cache_path = cfg.aidoku_cache_path
          /\ startArgs[i].db_path = cfg.db_path
          /\ startArgs[i].downloads_path = cfg.downloads_path
          /\ startArgs[i].local_manga_path = cfg.local_manga_path
          /\ startArgs[i].local_anime_path = cfg.local_anime_path
          /\ startArgs[i].migrate_path =
                (IF cfg.migrate_path # None /\ cfg.migrate_path[1] # <<>>
                 THEN cfg.migrate_path ELSE None)

\* Only the migrate path holds a NUL, and build_state refused it.
C4_Witness ==
    /\ bpc = "config_err" /\ berr = "migrate_path"
    /\ HasNul(cfg.migrate_path[1])
    /\ startArgs = <<>>

\* The request the backend must receive for an inbound request: the method,
\* the base URL followed by the path and query, every header but host, the body.
ExpectedBackendRequest(q) ==
    [method  |-> q.method,
     url     |-> backend_url[1] \o PathStr(q.path)
                 \o (IF q.query = None THEN <<>> ELSE <<"?">> \o q.query[1]),
     headers |-> SelectSeq(q.headers, LAMBDA h : h[1] # "host"),
     body    |-> q.body]

\* The headers the public router's CORS layer leaves on a response.
ExpectedCorsHeaders(headers) ==
    SelectSeq(headers, LAMBDA h : h[1] # "access-control-allow-origin")
    \o <<(<<"vary", VaryValue>>), (<<"access-control-allow-origin", "*">>)>>

\* C5 as stated: on the public router, every non-upgrade request to a mapped
\* path reaches the backend with its method, URL, headers but host and body,
\* and the client receives the backend's status, headers and body unchanged.
C5_Original ==
    \A r \in Reqs :
        (router = "cors" /\ Finished(r) /\ InTable(req[r].q[1].path)
                /\ ~IsUpgradeRequest(req[r].q[1])) =>
            /\ req[r].sent = <<ExpectedBackendRequest(req[r].q[1])>>
            /\ req[r].bresp # None => req[r].resp[1] = req[r].bresp[1]

\* C5, amended: every non-upgrade request to a mapped path is forwarded with
\* its method, the URL backend_url + path and query, every header but host
\* and its body in order, and the client receives the backend's status and
\* body unchanged and the backend's headers in order -- except that the
\* public router's CORS layer answers an OPTIONS request itself, without
\* forwarding it, and on every other response appends vary and sets
\* access-control-allow-origin: * in place of the backend's value.
C5_ForwardedVerbatim ==
    \A r \in Reqs :
        (Finished(r) /\ InTable(req[r].q[1].path) /\ ~IsUpgradeRequest(req[r].q[1])) =>
            IF router = "cors" /\ req[r].q[1].method = "OPTIONS"
            THEN /\ req[r].via = "cors"
                 /\ req[r].sent = <<>>
                 /\ req[r].resp[1].status = 200 /\ req[r].resp[1].body = <<>>
            ELSE /\ req[r].via = "http"
                 /\ req[r].sent = <<ExpectedBackendRequest(req[r].q[1])>>
                 /\ req[r].bresp # None =>
                       /\ req[r].resp[1].status = req[r].bresp[1].status
                       /\ req[r].resp[1].body = req[r].bresp[1].body
                       /\ req[r].resp[1].headers =
                             (IF router = "cors"
                              THEN ExpectedCorsHeaders(req[r].bresp[1].headers)
                              ELSE req[r].bresp[1].headers)

\* A POST with a host header, a repeated header, a query and a body went
\* through the public router and the backend answered with headers of its own.
C5_Witness ==
    /\ router = "cors"
    /\ req[1].via = "http" /\ req[1].pc = "returned"
    /\ req[1].q[1].method = "POST"
    /\ req[1].q[1].headers = <<ExtraHeader, HostHeader, ExtraHeaderAgain>>
    /\ req[1].q[1].query # None /\ req[1].q[1].body # <<>>
    /\ req[1].bresp # None /\ Len(req[1].bresp[1].headers) = 2
    /\ req[1].bresp[1].body # <<>>

\* C6: a forward whose backend request fails returns 502 with an empty body
\* after its one backend attempt; every forward makes exactly one backend
\* request of its own, whatever was answered before.
C6_FailedSendIsOne502 ==
    \A r \in Reqs :
        /\ req[r].via = "http" => Len(req[r].sent) = 1
        /\ req[r].send = "err" =>
              /\ req[r].pc = "returned"
              /\ req[r].resp[1].status = 502
              /\ req[r].resp[1].body = <<>>

\* A forward failed after an earlier forward of the same request had been
\* answered by the backend.
C6_Witness ==
    /\ req[1].send = "ok" /\ req[2].send = "err"
    /\ req[1].q = req[2].q
    /\ req[2].resp[1].status = 502

\* C7: a forward that is waiting on a backend that cannot be reached
\* eventually returns, with status 502 and an empty body.
C7_UnreachableForwardReturns ==
    \A r \in Reqs :
        (req[r].pc = "sending" /\ backend = "dead") ~>
            (req[r].pc = "returned" /\ req[r].send = "err"
                /\ req[r].resp[1].status = 502 /\ req[r].resp[1].body = <<>>)

\* A forward that waited on a dead backend has returned its empty 502.
C7_Witness ==
    /\ backend = "dead" /\ stopCalls = <<>>
    /\ req[1].pc = "returned" /\ req[1].send = "err"
    /\ req[1].resp[1].status = 502 /\ req[1].resp[1].body = <<>>

\* C8: a request the router hands to proxy_handler goes to the WebSocket
\* bridge exactly when its Upgrade header equals "websocket" ignoring ASCII
\* case; such a request makes no HTTP forward, and every other request is
\* forwarded over HTTP and starts no session and no backend dial.
C8_UpgradeDecidesBridge ==
    \A r \in Reqs :
        req[r].via \in HandlerVias =>
            /\ req[r].via \in {"ws", "ws_rejected"} <=> IsUpgradeRequest(req[r].q[1])
            /\ req[r].via \in {"ws", "ws_rejected"} =>
                  req[r].sent = <<>> /\ req[r].send = "none"
            /\ req[r].via = "http" =>
                  Len(req[r].sent) = 1 /\ ws[r].pc = "none" /\ ws[r].dials = <<>>

\* An upper-case WEBSOCKET upgrade was bridged and its backend dial made.
C8_Witness ==
    /\ req[1].via = "ws"
    /\ HeaderGet(req[1].q[1].headers, "upgrade") = Some(UpgradeUpper[2])
    /\ Len(ws[1].dials) = 1

\* C9: on the router build_router_without_cors builds, for every method, a
\* request reaches proxy_handler exactly when its path is /health,
\* /extension/icon/{name}, /api/v1, /api/v1/*, /docs, /docs/* or
\* /openapi.json ({name} one non-empty segment, * a non-empty remainder); any
\* other path matches no route and causes no backend request.
C9_RouteTable ==
    \A r \in Reqs :
        req[r].q # None =>
            /\ req[r].via \in HandlerVias <=> InTable(req[r].q[1].path)
            /\ ~InTable(req[r].q[1].path) =>
                  /\ req[r].via = "nomatch"
                  /\ req[r].sent = <<>>
                  /\ ws[r].pc = "none" /\ ws[r].dials = <<>>
                  /\ req[r].resp[1].status = 404

\* A DELETE of /docs/ (an empty remainder) matched no route.
C9_Witness ==
    /\ req[1].via = "nomatch"
    /\ req[1].q[1].method = "DELETE"
    /\ Len(req[1].q[1].path) = 2 /\ req[1].q[1].path[1] = "docs" /\ req[1].q[1].path[2] = ""

\* C10: a session whose backend URL does not parse or whose backend dial
\* fails is closed without bridging: its client socket is closed and no
\* message was read or written on either side.
C10_FailedDialNeverBridges ==
    \A r \in Reqs :
        ws[r].dial \in {"parse_err", "err"} =>
            /\ req[r].resp[1].status = 101
            /\ ws[r].pc = "closed"
            /\ ws[r].client = "closed"
            /\ ws[r].bsock = "none"
            /\ ws[r].fromClient = <<>> /\ ws[r].toBackend = <<>>
            /\ ws[r].fromBackend = <<>> /\ ws[r].toClient = <<>>

\* The client's handshake was accepted and a live backend refused the dial.
C10_Witness ==
    /\ ws[1].dial = "err" /\ backend = "up"
    /\ req[1].via = "ws"
    /\ ws[1].pc = "closed"

\* A message and its translation agree: the same kind and payload, and for a
\* close the same presence of a frame, the same code number and reason.
SameMessage(a, t) ==
    /\ a.kind = t.kind
    /\ a.kind \in DataKinds => a.data = t.data
    /\ a.kind = "Close" =>
          /\ a.frame = None <=> t.frame = None
          /\ a.frame # None =>
                /\ a.frame[1].code = U16FromCloseCode(t.frame[1].code)
                /\ CloseCodeFromU16(a.frame[1].code) = t.frame[1].code
                /\ a.frame[1].reason = t.frame[1].reason

\* C11: every text, binary, ping, pong or close message written to the other
\* side has the kind and payload -- for a close, the presence of a frame, the
\* code and the reason -- of the message read, in both directions, and
\* translating it back gives the message read.
C11_TranslationPreserves ==
    \A r \in Reqs :
        /\ \A i \in 1..Len(ws[r].toBackend) :
              /\ SameMessage(ws[r].fromClient[i], ws[r].toBackend[i])
              /\ tungstenite_to_axum(ws[r].toBackend[i]) = ws[r].fromClient[i]
        /\ \A i \in 1..Len(ws[r].toClient) :
              ws[r].fromBackend[i].kind # "Frame" =>
                  /\ SameMessage(ws[r].toClient[i], ws[r].fromBackend[i])
                  /\ axum_to_tungstenite(ws[r].toClient[i]) = Some(ws[r].fromBackend[i])

\* A close with an application code and a reason reached the client, and a
\* text message reached the backend.
C11_Witness ==
    /\ Len(ws[1].toClient) = 1 /\ Len(ws[1].toBackend) = 1
    /\ ws[1].toClient[1] = [kind |-> "Close",
                             frame |-> Some([code |-> 4000, reason |-> <<"b", "y", "e">>])]
    /\ ws[1].fromBackend[1].frame[1].code = <<"Library", 4000>>
    /\ ws[1].toBackend[1] = DefaultClientMsg

\* C12: in each direction of a session the messages written to the
\* destination are, in order, the translations of a prefix of the messages
\* read from the source: none reordered, duplicated or skipped, however the
\* two directions interleave.
C12_PerDirectionFifo ==
    \A r \in Reqs :
        /\ Len(ws[r].toBackend) <= Len(ws[r].fromClient)
        /\ ws[r].toBackend =
              [i \in 1..Len(ws[r].toBackend) |-> axum_to_tungstenite(ws[r].fromClient[i])[1]]
        /\ Len(ws[r].toClient) <= Len(ws[r].fromBackend)
        /\ ws[r].toClient =
              [i \in 1..Len(ws[r].toClient) |-> tungstenite_to_axum(ws[r].fromBackend[i])]

\* Two different messages were relayed in each direction, the directions
\* taking turns.
C12_Witness ==
    /\ Len(ws[1].toBackend) = 2 /\ ws[1].toBackend[1] # ws[1].toBackend[2]
    /\ Len(ws[1].toClient) = 2 /\ ws[1].toClient[1] # ws[1].toClient[2]
    /\ ws[1].toClient[1].kind = "Text" /\ ws[1].toBackend[1].kind = "Close"

\* The events that end a relay: a read that yields an error or the end of the
\* stream, a write that fails.
EndCauses == {"client_read", "backend_read", "backend_write", "client_write"}

\* C13: once a read of either direction has yielded an error or the end of
\* its stream, or a write has failed, the session is closed with both the
\* client-facing and the backend-facing socket released in that same step,
\* and from then on nothing is read from or written to either socket.
C13_FirstFailureClosesBoth ==
    /\ [](\A r \in Reqs :
            /\ ws[r].cause \in EndCauses =>
                  /\ ws[r].pc = "closed"
                  /\ ws[r].client = "closed" /\ ws[r].bsock = "closed"
                  /\ ws[r].pending = None
            /\ ws[r].bsock = "closed" <=> (ws[r].client = "closed" /\ ws[r].dial = "ok"))
    /\ [][\A r \in Reqs : ws[r].pc = "closed" => ws'[r] = ws[r]]_vars

\* A write to a client that had gone failed after a message had been relayed
\* to the backend.
C13_Witness ==
    /\ ws[1].cause = "client_write"
    /\ Len(ws[1].toBackend) = 1 /\ Len(ws[1].fromBackend) = 1 /\ ws[1].toClient = <<>>
    /\ ws[1].pc = "closed"

Bridging == {"select", "send_backend", "send_client"}

\* C14, as stated: once the backend has been stopped while a session is
\* bridging, the session eventually is closed, with its client-facing and
\* its backend-facing socket closed and its task finished.
C14_Original ==
    \A r \in Reqs :
        (ws[r].pc \in Bridging /\ backend = "dead" /\ stopCalls # <<>>) ~>
            (ws[r].pc = "closed" /\ ws[r].client = "closed" /\ ws[r].bsock = "closed")

\* C17, as stated: while a write of a client message to the backend is
\* pending, a message arriving from the backend can be read, and while a
\* write of a backend message to the client is pending, a message arriving
\* from the client can be read.
C17_Original ==
    \A r \in Reqs :
        /\ (ws[r].pc = "send_backend" /\ backend = "up"
                /\ Len(ws[r].fromBackend) < MaxMsgs) =>
              ENABLED (\E m \in SessionBackendMsgs : BackendRead(r, m))
        /\ (ws[r].pc = "send_client" /\ ws[r].cpeer # "gone"
                /\ Len(ws[r].fromClient) < MaxMsgs) =>
              ENABLED (\E m \in SessionClientMsgs : ClientRead(r, m))

\* C15, as stated: in every session whose backend handshake succeeded, the
\* subprotocol the client was given in its handshake response is the one the
\* backend accepted.
C15_Original ==
    \A r \in Reqs : ws[r].dial = "ok" => ws[r].cproto = ws[r].bproto

\* A step in which request or session r fails: its forward gets no response,
\* its upgrade is rejected, its dial fails, or its relay ends.
FailureStep(r) ==
    \/ req[r].send # "err" /\ req'[r].send = "err"
    \/ req[r].via # "ws_rejected" /\ req'[r].via = "ws_rejected"
    \/ ws[r].dial \notin {"err", "parse_err"} /\ ws'[r].dial \in {"err", "parse_err"}
    \/ ws[r].pc # "closed" /\ ws'[r].pc = "closed"

\* C16: a step in which one request or session fails leaves the shared state
\* (backend URL, backend handle, router, backend process) as it was, invokes
\* no stop, and leaves every other request and session exactly as it was, so
\* each can take the steps it could take before.
C16_FailureIsContained ==
    [][\A r \in Reqs :
         FailureStep(r) =>
            /\ backend_url' = backend_url /\ handle' = handle /\ srv' = srv
            /\ router' = router /\ backend' = backend
            /\ stopCalls' = stopCalls
            /\ \A s \in Reqs \ {r} :
                  /\ req'[s] = req[s] /\ ws'[s] = ws[s]
                  /\ holder'[Hreq(s)] = holder[Hreq(s)]]_vars

\* A forward failed while another request's session had dialled the backend
\* with success, and nothing was stopped.
C16_Witness ==
    /\ req[1].send = "err" /\ req[1].resp[1].status = 502
    /\ req[2].via = "ws" /\ ws[2].dial = "ok" /\ ws[2].pc = "select"
    /\ stopCalls = <<>> /\ backend = "up"

AllowedNames == {"cookie", "authorization", "user-agent", "sec-websocket-protocol", "origin"}

C19_TranslationIsTotal ==
    \A r \in Reqs :
        /\ ws[r].pc = "select" =>
              /\ Len(ws[r].toBackend) = Len(ws[r].fromClient)
              /\ Len(ws[r].toClient) = Len(ws[r].fromBackend)
        /\ ws[r].pc = "send_backend" =>
              /\ ws[r].pending # None
              /\ Len(ws[r].toBackend) + 1 = Len(ws[r].fromClient)
              /\ Len(ws[r].toClient) = Len(ws[r].fromBackend)
        /\ ws[r].pc = "send_client" =>
              /\ ws[r].pending # None
              /\ Len(ws[r].toClient) + 1 = Len(ws[r].fromBackend)
              /\ Len(ws[r].toBackend) = Len(ws[r].fromClient)
        /\ \A i \in 1..Len(ws[r].toClient) :
              ws[r].fromBackend[i].kind = "Frame" =>
                  ws[r].toClient[i] = [kind |-> "Binary", data |-> <<>>]

\* A raw frame from the backend reached the client as an empty binary
\* message after the client's close had been written to the backend.
C19_Witness ==
    /\ ws[1].pc = "select"
    /\ Len(ws[1].fromBackend) = 1 /\ ws[1].fromBackend[1].kind = "Frame"
    /\ ws[1].fromBackend[1].data # <<>>
    /\ ws[1].toClient = <<[kind |-> "Binary", data |-> <<>>]>>
    /\ Len(ws[1].toBackend) = 1 /\ ws[1].toBackend[1].kind = "Close"

\* The session states: 1 Handshaking, 2 Bridging, 3 Closed (0: no session).
Rank(pc) ==
    IF pc = "none" THEN 0
    ELSE IF pc \in {"upgrading", "connecting"} THEN 1
    ELSE IF pc \in Bridging THEN 2
    ELSE 3

\* C20: a session only moves forward through Handshaking, Bridging and
\* Closed, a closed session never changes again, the backend is dialled at
\* most once per session and never after bridging has begun, and what was
\* written to either side is never written again or taken back.
C20_SessionOnlyAdvances ==
    /\ [](\A r \in Reqs : Len(ws[r].dials) <= 1)
    /\ [][\A r \in Reqs :
            /\ Rank(ws'[r].pc) >= Rank(ws[r].pc)
            /\ ws[r].pc = "closed" => ws'[r] = ws[r]
            /\ Rank(ws[r].pc) >= 2 => ws'[r].dials = ws[r].dials
            /\ Len(ws'[r].toBackend) \in {Len(ws[r].toBackend), Len(ws[r].toBackend) + 1}
            /\ SubSeq(ws'[r].toBackend, 1, Len(ws[r].toBackend)) = ws[r].toBackend
            /\ Len(ws'[r].toClient) \in {Len(ws[r].toClient), Len(ws[r].toClient) + 1}
            /\ SubSeq(ws'[r].toClient, 1, Len(ws[r].toClient)) = ws[r].toClient]_vars

\* A session that was dialled once and relayed in both directions was closed
\* by the end of the backend's stream.
C20_Witness ==
    /\ ws[1].pc = "closed" /\ ws[1].cause = "backend_read"
    /\ ws[1].dial = "ok" /\ Len(ws[1].dials) = 1
    /\ Len(ws[1].toClient) = 2 /\ Len(ws[1].toBackend) = 1

\* C21: the backend is dialled for a session only once the client's
\* handshake was accepted and its upgrade has completed, and a request whose
\* handshake is rejected opens no backend connection, HTTP or WebSocket.
C21_DialOnlyAfterHandshake ==
    /\ [](\A r \in Reqs :
            /\ ws[r].dials # <<>> =>
                  /\ req[r].via = "ws" /\ req[r].pc = "returned"
                  /\ req[r].resp[1].status = 101
                  /\ ws[r].pc \notin {"none", "upgrading"}
            /\ req[r].via = "ws_rejected" =>
                  /\ req[r].resp[1].status # 101
                  /\ ws[r].dials = <<>> /\ ws[r].dial = "none" /\ ws[r].pc = "none"
                  /\ req[r].sent = <<>> /\ req[r].send = "none")
    /\ [][\A r \in Reqs :
            ws'[r].dials # ws[r].dials =>
                ws[r].pc = "upgrading" /\ req[r].resp # None /\ req[r].resp[1].status = 101]_vars

\* One request's handshake was rejected and nothing was dialled for it, while
\* an accepted one was dialled after its upgrade.
C21_Witness ==
    /\ req[1].via = "ws_rejected" /\ req[1].resp[1].status = 400 /\ ws[1].dials = <<>>
    /\ req[2].via = "ws" /\ Len(ws[2].dials) = 1 /\ ws[2].dial = "pending"

\* The port the start call was given and, once the state exists, the port its
\* base URL names are both n.
BackendPortIs(n) ==
    /\ startArgs[1].port = n
    /\ bpc = "ok" => backend_url[1] = format_backend_url(startArgs[1].host, n)

\* The statement as the specification words it: with MANATAN_BACKEND_PORT
\* unset the backend port is listen_port + 1 for every listen port, and a
\* value that is set is the port used, never the default.
C22_Original ==
    startArgs # <<>> =>
        /\ env.port = None => BackendPortIs(cfg.port + 1)
        /\ env.port # None =>
              /\ parse_u16(env.port[1]) # None
              /\ BackendPortIs(parse_u16(env.port[1])[1])

\* C22 (amended): with MANATAN_BACKEND_PORT unset, or set to text that does
\* not parse as a u16, the backend port is listen_port + 1 for the listen
\* ports 0..65534 and 65535 for listen port 65535; set to text that parses as
\* a u16, the parsed value is the port used and the default never replaces it.
C22_DefaultOrSuppliedPort ==
    startArgs # <<>> =>
        IF env.port # None /\ parse_u16(env.port[1]) # None
        THEN BackendPortIs(parse_u16(env.port[1])[1])
        ELSE IF cfg.port = U16Max
             THEN BackendPortIs(U16Max)
             ELSE BackendPortIs(cfg.port + 1)

\* The state was built for listen port 65535 with no backend port set, and
\* the backend was started on 65535.
C22_Witness ==
    /\ bpc = "ok" /\ cfg.port = U16Max /\ env.port = None
    /\ startArgs[1].port = U16Max

\* C23: when the backend is started with port 0 the port it was assigned is
\* read back, and the base URL the bridges use carries that port. A listener
\* is never assigned port 0, so the base URL of such a state does not name
\* port 0, the port of the request.
C23_Original ==
    (bpc = "ok" /\ startArgs[1].port = 0) =>
        backend_url[1] # format_backend_url(startArgs[1].host, 0)

\* C24: the step that stops the backend leaves every HTTP forward and every
\* WebSocket session as it was; a session that is dialling or bridging ends
\* only with the outcome of its own dial, read or write, and a forward that
\* is sending ends only with the outcome of its own send, in a step that
\* stops nothing.
C24_StopCancelsNothing ==
    [][/\ (stopCalls' # stopCalls \/ srv' # srv) => (req' = req /\ ws' = ws)
       /\ \A r \in Reqs :
            /\ (ws[r].pc \in {"connecting"} \cup Bridging /\ ws'[r].pc # ws[r].pc) =>
                  /\ stopCalls' = stopCalls
                  /\ \/ ws[r].pc = "connecting" /\ ws'[r].dial \in {"ok", "err"}
                     \/ ws'[r].pc \in Bridging
                     \/ ws'[r].pc = "closed" /\ ws'[r].cause \in EndCauses
            /\ (req[r].pc = "sending" /\ req'[r] # req[r]) =>
                  /\ stopCalls' = stopCalls
                  /\ req'[r].pc = "returned" /\ req'[r].send \in {"ok", "err"}]_vars

\* The backend was stopped while one session was bridging and another was
\* dialling; both are still where they were, sockets open.
C24_Witness ==
    /\ Len(stopCalls) = 1 /\ backend = "dead"
    /\ ws[1].pc = "select" /\ ws[1].client = "open" /\ ws[1].bsock = "open"
    /\ ws[2].pc = "connecting" /\ ws[2].client = "open"

\* host:port of the start call, as text.
StartedAuthority == startArgs[1].host \o <<":">> \o Decimal(startArgs[1].port)

\* C25: the base URL of the state is http://H:P for the host H and port P
\* given to the start call and never changes; every request forwarded to the
\* backend has the URL http://H:P followed by its path and query, and every
\* backend WebSocket dial the URL ws://H:P followed by its path and query.
C25_OneBackendAddress ==
    /\ [](/\ bpc = "ok" =>
               /\ Len(startArgs) = 1
               /\ backend_url = Some(<<"h", "t", "t", "p", ":", "/", "/">> \o StartedAuthority)
           /\ \A r \in Reqs :
               /\ \A i \in 1..Len(req[r].sent) :
                     req[r].sent[i].url =
                        <<"h", "t", "t", "p", ":", "/", "/">> \o StartedAuthority
                        \o PathAndQuery(req[r].q[1])
               /\ \A i \in 1..Len(ws[r].dials) :
                     ws[r].dials[i].url =
                        <<"w", "s", ":", "/", "/">> \o StartedAuthority
                        \o PathAndQuery(req[r].q[1]))
    /\ [][backend_url # None => backend_url' = backend_url /\ startArgs' = startArgs]_vars

\* With a host and a port taken from the environment, one request was
\* forwarded and another dialled, both with a query.
C25_Witness ==
    /\ bpc = "ok" /\ env.host # None /\ env.port = Some(<<"9", "0", "0", "0">>)
    /\ startArgs[1].port = 9000
    /\ Len(req[1].sent) = 1 /\ req[1].q[1].query # None
    /\ Len(ws[2].dials) = 1 /\ req[2].q[1].query # None

====
